---- MODULE Spec2Model ----
(***************************************************************************)
(* qr-access: single-use, time-bounded access tokens.                      *)
(*                                                                         *)
(* The model covers package core: Signer, the payload codec, the two Store *)
(* implementations (MemoryStore, RedisStore), the two RateLimiter          *)
(* implementations (MemoryRateLimiter, RedisRateLimiter) and the Manager   *)
(* (Generate, Verify).  Calls are made by a fixed set of goroutines; every *)
(* access to shared state (store, limiter, clock) is one atomic step, the  *)
(* local computation of a call is folded into the step that follows it.    *)
(*                                                                         *)
(* Durations and instants are integers counted in half seconds.            *)
(***************************************************************************)
EXTENDS Integers, Sequences, FiniteSets, TLC

(***************************************************************************)
(* Bounds of the model.                                                    *)
(***************************************************************************)
NumProcs == 2
MaxTokens == 1
MaxTime == 3
MaxIOErrs == 1
MaxLog == 3
MaxCodecID == 3

(***************************************************************************)
(* Units: time.Duration values are counted in half seconds, so that        *)
(* int(window.Seconds()) is observable.                                    *)
(***************************************************************************)
UnitsPerSecond == 2

Procs == 1..NumProcs

Secrets == {"s", "wrong"}
Actions == {"login"}
TTLs == {1, 2}

\* redis key without expiry (PTTL = -1)
NoExpiry == -1

\* the identifier an attacker makes up: well formed, never minted
FabricatedID == 0

Max(a, b) == IF a >= b THEN a ELSE b

Min(a, b) == IF a <= b THEN a ELSE b

(***************************************************************************)
(* type Token and the errors of package core.                              *)
(***************************************************************************)
ZeroToken == [ID |-> 0, UserID |-> "", Action |-> "", ExpiresAt |-> 0, Used |-> FALSE]

ErrNotFound == "ErrNotFound"
ErrExpired == "ErrExpired"
ErrUsed == "ErrUsed"
ErrBadSignature == "ErrBadSignature"
ErrBadPayload == "ErrBadPayload"
ErrRateLimitExceeded == "ErrRateLimitExceeded"
\* fmt.Errorf values of Generate and Verify
ErrInvalid == "ErrInvalid"
\* an error of the redis client (network, server reply)
ErrIO == "ErrIO"
NoErr == "nil"

(***************************************************************************)
(* Signer.  HMAC-SHA-256 is modelled as a collision-free function of the   *)
(* key and the message; flip counts the bytes altered after signing.       *)
(***************************************************************************)
Sign(secret, idBytes) == [key |-> secret, msg |-> idBytes, flip |-> 0]

Tamper(sig) == [sig EXCEPT !.flip = 1]

\* the zero value of the string field Sig
NoSig == [key |-> "", msg |-> -1, flip |-> 0]

SignerVerify(secret, idBytes, signature) == Sign(secret, idBytes) = signature

(***************************************************************************)
(* uuid.UUID.String and uuid.Parse.  Parse accepts the canonical form and  *)
(* the urn:uuid: form of the same identifier.                              *)
(***************************************************************************)
UUIDString(id) == [form |-> "canonical", n |-> id]

BadIDString == [form |-> "bad", n |-> -1]

\* the zero value of the string field ID
NoID == [form |-> "empty", n |-> -1]

UUIDParse(s) ==
    IF s.form \in {"canonical", "urn"} /\ s.n >= 0
    THEN [err |-> NoErr, id |-> s.n]
    ELSE [err |-> ErrInvalid, id |-> 0]

(***************************************************************************)
(* Go strings that are not valid UTF-8, and what json.Marshal writes for   *)
(* them: every invalid byte becomes U+FFFD.                                *)
(***************************************************************************)
RawIDString == [form |-> "invalid-utf8", n |-> -1]

ReplacedIDString == [form |-> "replaced", n |-> -1]

RawSig == [key |-> "", msg |-> -2, flip |-> 0]

ReplacedSig == [key |-> "", msg |-> -3, flip |-> 0]

\* json.Marshal of a string, read back by json.Unmarshal
JSONString(str) ==
    IF str = RawIDString THEN ReplacedIDString
    ELSE IF str = RawSig THEN ReplacedSig
    ELSE str

(***************************************************************************)
(* Payload codec: base64url(JSON{id, sig}).  A payload string is what it   *)
(* decodes to: whether it is base64url, whether the bytes parse as JSON    *)
(* into the struct, which of the two fields the object carries and their   *)
(* values.                                                                 *)
(***************************************************************************)
PayloadFields == {"id", "sig"}

\* base64url of a JSON object that carries the given fields
JSONObject(fields, id, signature) ==
    [b64 |-> TRUE, json |-> TRUE, fields |-> fields,
     id |-> IF "id" \in fields THEN id ELSE NoID,
     sig |-> IF "sig" \in fields THEN signature ELSE NoSig]

\* the codec that writes the id alone
EncodePayloadIDOnly(id, signature) ==
    JSONObject({"id"}, JSONString(id), JSONString(signature))

EncodePayload(id, signature) ==
    JSONObject(PayloadFields, JSONString(id), JSONString(signature))

\* a string that is not unpadded URL-safe base64
NotBase64 ==
    [b64 |-> FALSE, json |-> FALSE, fields |-> {}, id |-> BadIDString, sig |-> NoSig]

\* base64 of bytes that are not a JSON object (the empty string included)
NotJSON ==
    [b64 |-> TRUE, json |-> FALSE, fields |-> {}, id |-> BadIDString, sig |-> NoSig]

EmptyPayload == NotJSON

\* json.Unmarshal leaves a field the object does not carry at its zero value
DecodePayload(encoded) ==
    IF ~encoded.b64 THEN [err |-> ErrBadPayload, ID |-> BadIDString, Sig |-> NoSig]
    ELSE IF ~encoded.json THEN [err |-> ErrBadPayload, ID |-> BadIDString, Sig |-> NoSig]
    ELSE [err |-> NoErr,
          ID |-> IF "id" \in encoded.fields THEN encoded.id ELSE NoID,
          Sig |-> IF "sig" \in encoded.fields THEN encoded.sig ELSE NoSig]

(***************************************************************************)
(* State.                                                                  *)
(*   cfg      the Manager's fields (Config), fixed at construction, and    *)
(*            the calling discipline of the goroutines                     *)
(*   now      the clock: time.Now, the Manager's now func and the redis    *)
(*            server's clock                                               *)
(*   data     the store: MemoryStore.data, or the token blobs of redis     *)
(*   pttl     redis only: the instant each token key expires at            *)
(*   users    the limiter: MemoryRateLimiter.users, or the counter keys of *)
(*            redis with the instant each expires at (windowEnd)           *)
(*   nextID   the number of identifiers uuid.New has minted                *)
(*   pc, call each goroutine's position and the locals of its call         *)
(*   last     the call that returned last: its locals and what it returned *)
(*   generated, verifyOK, rlLog, ioErrs, ioLog   history of the run: the   *)
(*            tokens Generate returned, the successes of Verify, the       *)
(*            answers of the limiter, the redis commands that failed       *)
(***************************************************************************)
VARIABLES cfg, now, data, pttl, users, nextID, pc, call, last,
          generated, verifyOK, rlLog, ioErrs, ioLog

vars == <<cfg, now, data, pttl, users, nextID, pc, call, last,
          generated, verifyOK, rlLog, ioErrs, ioLog>>

\* Config as NewManagerWithOptions builds it: the limiter follows the store
NewConfig(backend, rateLimit, rateWindow, minTTL, maxTTL, sequential) ==
    [store |-> backend,
     rateLimiter |-> IF rateLimit > 0 THEN backend ELSE "nil",
     rateLimit |-> rateLimit,
     rateWindow |-> rateWindow,
     minTTL |-> minTTL,
     maxTTL |-> maxTTL,
     sequential |-> sequential]

Backends == {"memory", "redis"}

\* <<RateLimit, RateWindow>>: 1 per second; 2 per 1.5 s
RateOptions == {<<1, 2>>, <<2, 3>>}

\* no rate limit, no TTL bounds
PlainConfigs(sequential) ==
    {NewConfig(b, 0, 0, 0, 0, sequential) : b \in Backends}

\* a rate limit, no TTL bounds
RateConfigs ==
    {NewConfig(b, r[1], r[2], 0, 0, FALSE) : b \in Backends, r \in RateOptions}

\* the arguments and locals of a call, with what it did: ttlArg is the ttl
\* the caller passed (ttl is the local Generate overwrites), savedAt the
\* instant of Store.Save, idArg and sigArg the arguments of EncodePayload,
\* reads the number of times the call has read the Manager's clock
\* MinTTL and MaxTTL of ManagerOptions: 1 s and 2 s, 0 for none, and a
\* MaxTTL of half a second, below MinTTL
MinTTLs == {0, 2}

MaxTTLs == {0, 1, 4}

\* TTL bounds, no rate limit
TTLConfigs ==
    {NewConfig(b, 0, 0, mn, mx, FALSE) : b \in Backends, mn \in MinTTLs, mx \in MaxTTLs}

\* a rate limit, callers one at a time
UserConfigs ==
    {NewConfig(b, r[1], r[2], 0, 0, TRUE) : b \in Backends, r \in RateOptions}

IdleCall ==
    [op |-> "none", secretKey |-> "", userID |-> "", action |-> "", ttl |-> 0,
     encoded |-> NotBase64, tokenID |-> 0, token |-> ZeroToken, nowRead |-> -1,
     storeOps |-> <<>>, priorOK |-> FALSE, logAt |-> 0,
     ttlArg |-> 0, savedAt |-> -1, idArg |-> NoID, sigArg |-> NoSig, reads |-> 0]

\* what a call returned: Generate's (Token, string, error), Verify's (*Token, error)
NoResult == [err |-> NoErr, token |-> ZeroToken, payload |-> EmptyPayload]

NoLast == [call |-> IdleCall, result |-> NoResult]

\* newManager: the store is required, nothing else is checked
newManager(config) ==
    IF config.store = "nil"
    THEN [err |-> ErrInvalid, manager |-> config]
    ELSE [err |-> NoErr, manager |-> config]

InitWith(configs) ==
    /\ cfg \in {newManager(c).manager : c \in {k \in configs : newManager(k).err = NoErr}}
    /\ now = 0
    /\ data = <<>>
    /\ pttl = <<>>
    /\ users = <<>>
    /\ nextID = 0
    /\ pc = [p \in Procs |-> "idle"]
    /\ call = [p \in Procs |-> IdleCall]
    /\ last = NoLast
    /\ generated = <<>>
    /\ verifyOK = <<>>
    /\ rlLog = <<>>
    /\ ioErrs = 0
    /\ ioLog = <<>>

Init == InitWith(PlainConfigs(FALSE))

InitSeq == InitWith(PlainConfigs(TRUE))

InitRate == InitWith(RateConfigs)

InitTTL == InitWith(TTLConfigs)

InitUsers == InitWith(UserConfigs)

(***************************************************************************)
(* A Manager that has issued two tokens to one subject at instant 0, with  *)
(* lifetimes of half a second and one second, and has had no other call.   *)
(***************************************************************************)
IssuedToken(id, ttl) ==
    [ID |-> id, UserID |-> "u1", Action |-> "login", ExpiresAt |-> ttl, Used |-> FALSE]

\* the Generate call that issued it, and what it returned
IssuedCall(id, ttl) ==
    [IdleCall EXCEPT !.op = "Generate", !.secretKey = "s", !.userID = "u1",
                     !.action = "login", !.ttl = ttl, !.ttlArg = ttl, !.tokenID = id,
                     !.token = IssuedToken(id, ttl), !.nowRead = 0,
                     !.storeOps = <<"Save">>, !.savedAt = 0,
                     !.idArg = UUIDString(id), !.sigArg = Sign("s", id), !.reads = 1]

IssuedResult(id, ttl) ==
    [err |-> NoErr, token |-> IssuedToken(id, ttl),
     payload |-> EncodePayload(UUIDString(id), Sign("s", id))]

(***************************************************************************)
(* The redis client: a command either runs and answers ("ok"), fails       *)
(* before it runs ("fail"), or runs with its reply lost ("lost").  The     *)
(* in-memory implementations cannot fail.                                  *)
(***************************************************************************)
IOOutcomes(backend) ==
    IF backend = "redis" /\ ioErrs < MaxIOErrs THEN {"ok", "fail", "lost"} ELSE {"ok"}

IOCount(io) == IF io = "ok" THEN ioErrs ELSE ioErrs + 1

\* the command op on id ended as io
IOLogged(io, op, id) ==
    IF io = "ok" THEN ioLog ELSE Append(ioLog, [op |-> op, id |-> id, io |-> io])

\* a redis key is gone once the server's clock has passed its expiry
KeyLive(deadline) == deadline = NoExpiry \/ now <= deadline

Put(f, k, v) == [x \in DOMAIN f \cup {k} |-> IF x = k THEN v ELSE f[x]]

(***************************************************************************)
(* json.Marshal and json.Unmarshal of a Token (the json tags of Token).    *)
(***************************************************************************)
TokenJSON(t) ==
    [id |-> UUIDString(t.ID), user_id |-> t.UserID, action |-> t.Action,
     expires_at |-> t.ExpiresAt, used |-> t.Used]

TokenFromJSON(raw) ==
    [ID |-> UUIDParse(raw.id).id, UserID |-> raw.user_id, Action |-> raw.action,
     ExpiresAt |-> raw.expires_at, Used |-> raw.used]

(***************************************************************************)
(* MemoryStore.  Each operation holds s.mu for its whole body.             *)
(***************************************************************************)
MemorySave(d, t) == Put(d, t.ID, t)

MemoryGet(d, id) ==
    IF id \notin DOMAIN d
    THEN [err |-> ErrNotFound, token |-> ZeroToken]
    ELSE [err |-> NoErr, token |-> d[id]]

\* MarkUsed that stores a fresh Token{ID: id, Used: true}
MemoryMarkUsedFresh(d, id) ==
    IF id \notin DOMAIN d
    THEN [err |-> ErrNotFound, data |-> d]
    ELSE [err |-> NoErr,
          data |-> [d EXCEPT ![id] = [ZeroToken EXCEPT !.ID = id, !.Used = TRUE]]]

MemoryMarkUsed(d, id) ==
    IF id \notin DOMAIN d
    THEN [err |-> ErrNotFound, data |-> d]
    ELSE [err |-> NoErr, data |-> [d EXCEPT ![id] = [d[id] EXCEPT !.Used = TRUE]]]

(***************************************************************************)
(* RedisStore.  d holds the blobs, x the instant each key expires at.      *)
(***************************************************************************)
RedisKeyExists(d, x, id) == id \in DOMAIN d /\ KeyLive(x[id])

\* SET key raw PX ttl
RedisSave(d, x, t, ttl) ==
    [data |-> Put(d, t.ID, TokenJSON(t)),
     pttl |-> Put(x, t.ID, IF ttl > 0 THEN now + ttl ELSE NoExpiry)]

RedisGet(d, x, id) ==
    IF ~RedisKeyExists(d, x, id)
    THEN [err |-> ErrNotFound, token |-> ZeroToken]
    ELSE [err |-> NoErr, token |-> TokenFromJSON(d[id])]

\* PTTL key
RedisPTTL(x, id) == IF x[id] = NoExpiry THEN -1 ELSE Max(x[id] - now, 0)

\* the script without its test of obj.used
RedisMarkUsedNoTest(d, x, id) ==
    IF ~RedisKeyExists(d, x, id)
    THEN [err |-> ErrNotFound, data |-> d, pttl |-> x]
    ELSE [err |-> NoErr,
          data |-> [d EXCEPT ![id] = [d[id] EXCEPT !.used = TRUE]],
          pttl |-> x]

\* the script with a plain SET for the rewrite
RedisMarkUsedPersist(d, x, id) ==
    IF ~RedisKeyExists(d, x, id)
    THEN [err |-> ErrNotFound, data |-> d, pttl |-> x]
    ELSE IF d[id].used
    THEN [err |-> ErrUsed, data |-> d, pttl |-> x]
    ELSE [err |-> NoErr,
          data |-> [d EXCEPT ![id] = [d[id] EXCEPT !.used = TRUE]],
          pttl |-> [x EXCEPT ![id] = NoExpiry]]

\* the Lua script of MarkUsed, one atomic unit on the server
RedisMarkUsed(d, x, id) ==
    IF ~RedisKeyExists(d, x, id)
    THEN [err |-> ErrNotFound, data |-> d, pttl |-> x]
    ELSE IF d[id].used
    THEN [err |-> ErrUsed, data |-> d, pttl |-> x]
    ELSE LET obj == [d[id] EXCEPT !.used = TRUE]
             ttl == RedisPTTL(x, id)
         IN  [err |-> NoErr,
              data |-> [d EXCEPT ![id] = obj],
              pttl |-> [x EXCEPT ![id] = IF ttl > 0 THEN now + ttl ELSE NoExpiry]]

(***************************************************************************)
(* The Store the Manager was built with.                                   *)
(***************************************************************************)
StoreSave(d, x, t, ttl) ==
    IF cfg.store = "memory"
    THEN [data |-> MemorySave(d, t), pttl |-> x]
    ELSE RedisSave(d, x, t, ttl)

StoreGet(d, x, id) ==
    IF cfg.store = "memory" THEN MemoryGet(d, id) ELSE RedisGet(d, x, id)

StoreMarkUsed(d, x, id) ==
    IF cfg.store = "memory"
    THEN [err |-> MemoryMarkUsed(d, id).err, data |-> MemoryMarkUsed(d, id).data, pttl |-> x]
    ELSE RedisMarkUsed(d, x, id)

\* the record held for id, as a Token, whatever the backend
Stored(id) == IF cfg.store = "memory" THEN data[id] ELSE TokenFromJSON(data[id])

InitFrame ==
    /\ cfg \in PlainConfigs(FALSE)
    /\ now = 0
    /\ LET first == StoreSave(<<>>, <<>>, IssuedToken(1, 1), 1)
           second == StoreSave(first.data, first.pttl, IssuedToken(2, 2), 2)
       IN  /\ data = second.data
           /\ pttl = second.pttl
    /\ users = <<>>
    /\ nextID = 2
    /\ pc = [p \in Procs |-> "idle"]
    /\ call = [p \in Procs |-> IdleCall]
    /\ last = [call |-> IssuedCall(2, 2), result |-> IssuedResult(2, 2)]
    /\ generated = Put(Put(<<>>, 1, IssuedToken(1, 1)), 2, IssuedToken(2, 2))
    /\ verifyOK = <<>>
    /\ rlLog = <<>>
    /\ ioErrs = 0
    /\ ioLog = <<>>

\* CheckAndIncrement whose window slides with every call it allows
MemoryCheckAndIncrementSliding(us, userID, limit, window) ==
    IF userID \notin DOMAIN us \/ now > us[userID].windowEnd
    THEN [err |-> NoErr, users |-> Put(us, userID, [count |-> 1, windowEnd |-> now + window])]
    ELSE IF us[userID].count >= limit
    THEN [err |-> ErrRateLimitExceeded, users |-> us]
    ELSE [err |-> NoErr,
          users |-> [us EXCEPT ![userID] = [count |-> @.count + 1,
                                            windowEnd |-> now + window]]]

\* CheckAndIncrement that turns a call down at count > limit
MemoryCheckAndIncrementOffByOne(us, userID, limit, window) ==
    IF userID \notin DOMAIN us \/ now > us[userID].windowEnd
    THEN [err |-> NoErr, users |-> Put(us, userID, [count |-> 1, windowEnd |-> now + window])]
    ELSE IF us[userID].count > limit
    THEN [err |-> ErrRateLimitExceeded, users |-> us]
    ELSE [err |-> NoErr,
          users |-> [us EXCEPT ![userID] = [@ EXCEPT !.count = @ + 1]]]

(***************************************************************************)
(* MemoryRateLimiter.CheckAndIncrement, under r.mu.                        *)
(***************************************************************************)
MemoryCheckAndIncrement(us, userID, limit, window) ==
    IF userID \notin DOMAIN us \/ now > us[userID].windowEnd
    THEN [err |-> NoErr, users |-> Put(us, userID, [count |-> 1, windowEnd |-> now + window])]
    ELSE IF us[userID].count >= limit
    THEN [err |-> ErrRateLimitExceeded, users |-> us]
    ELSE [err |-> NoErr,
          users |-> [us EXCEPT ![userID] = [@ EXCEPT !.count = @ + 1]]]

(***************************************************************************)
(* RedisRateLimiter.CheckAndIncrement: the Lua script, one atomic unit.    *)
(* ARGV[2] is int(window.Seconds()); SET ... EX 0 is an error of the       *)
(* server.                                                                 *)
(***************************************************************************)
WindowSeconds(window) == window \div UnitsPerSecond

RedisCheckAndIncrement(us, userID, limit, window) ==
    IF userID \notin DOMAIN us \/ ~KeyLive(us[userID].windowEnd)
    THEN IF WindowSeconds(window) <= 0
         THEN [err |-> ErrIO, users |-> us]
         ELSE [err |-> NoErr,
               users |-> Put(us, userID,
                             [count |-> 1,
                              windowEnd |-> now + WindowSeconds(window) * UnitsPerSecond])]
    ELSE IF us[userID].count >= limit
    THEN [err |-> ErrRateLimitExceeded, users |-> us]
    ELSE [err |-> NoErr,
          users |-> [us EXCEPT ![userID] = [@ EXCEPT !.count = @ + 1]]]

\* a limiter that keeps one counter for all principals
CheckAndIncrementShared(us, userID, limit, window) ==
    IF cfg.rateLimiter = "memory"
    THEN MemoryCheckAndIncrement(us, "", limit, window)
    ELSE RedisCheckAndIncrement(us, "", limit, window)

CheckAndIncrement(us, userID, limit, window) ==
    IF cfg.rateLimiter = "memory"
    THEN MemoryCheckAndIncrement(us, userID, limit, window)
    ELSE RedisCheckAndIncrement(us, userID, limit, window)

(***************************************************************************)
(* Manager.                                                                *)
(***************************************************************************)
\* the callers: in a sequential run a call begins when no other is in flight
CanBegin(p) ==
    /\ pc[p] = "idle"
    /\ cfg.sequential => \A q \in Procs : pc[q] = "idle"

\* the call of p returns r
Return(p, c, r) ==
    /\ pc' = [pc EXCEPT ![p] = "idle"]
    /\ call' = [call EXCEPT ![p] = IdleCall]
    /\ last' = [call |-> c, result |-> r]

Goto(p, c, label) ==
    /\ pc' = [pc EXCEPT ![p] = label]
    /\ call' = [call EXCEPT ![p] = c]
    /\ UNCHANGED last

Failure(err) == [err |-> err, token |-> ZeroToken, payload |-> EmptyPayload]

\* the argument checks of Generate without the check of ttl
GenerateValidateNoTTL(secretKey, userID, action, ttl) ==
    IF secretKey = "" THEN ErrInvalid
    ELSE IF userID = "" \/ action = "" THEN ErrInvalid
    ELSE NoErr

\* Generate, the argument checks
GenerateValidate(secretKey, userID, action, ttl) ==
    IF secretKey = "" THEN ErrInvalid
    ELSE IF userID = "" \/ action = "" THEN ErrInvalid
    ELSE IF ttl <= 0 THEN ErrInvalid
    ELSE NoErr

\* the clamp of Generate without its lower bound
ClampTTLNoMin(ttl) ==
    IF cfg.maxTTL > 0 /\ ttl > cfg.maxTTL THEN cfg.maxTTL ELSE ttl

\* Generate, the clamp of ttl: maxTTL first, then minTTL
ClampTTL(ttl) ==
    LET t1 == IF cfg.maxTTL > 0 /\ ttl > cfg.maxTTL THEN cfg.maxTTL ELSE ttl
    IN  IF cfg.minTTL > 0 /\ t1 < cfg.minTTL THEN cfg.minTTL ELSE t1

\* the rate limiter is consulted (Generate, m.rateLimiter != nil && m.rateLimit > 0)
Limited == cfg.rateLimiter # "nil" /\ cfg.rateLimit > 0

\* identifiers still to be minted by the calls in flight
Minting == Cardinality({q \in Procs : pc[q] = "mint"})

\* the run is bounded: by the answers of the limiter when there is one, by
\* the identifiers minted when there is none
MayGenerate == IF Limited THEN Len(rlLog) < MaxLog ELSE nextID + Minting < MaxTokens

\* Generate that has saved the token before it is refused
GenerateRejectSaved(p, c, err) ==
    LET token == [ID |-> nextID + 1, UserID |-> c.userID, Action |-> c.action,
                  ExpiresAt |-> now + c.ttl, Used |-> FALSE]
        s == StoreSave(data, pttl, token, c.ttl)
    IN  /\ Return(p, c, Failure(err))
        /\ data' = s.data
        /\ pttl' = s.pttl
        /\ UNCHANGED <<nextID, generated>>

\* Generate is refused: return Token{}, "", err
GenerateReject(p, c, err) ==
    /\ Return(p, c, Failure(err))
    /\ UNCHANGED <<data, pttl, nextID, generated>>

\* Generate up to the rate limiter's answer
GenerateBegin(p, secretKey, userID, action, ttl) ==
    /\ CanBegin(p)
    /\ MayGenerate
    /\ LET c == [IdleCall EXCEPT !.op = "Generate", !.secretKey = secretKey,
                                 !.userID = userID, !.action = action, !.ttl = ttl,
                                 !.ttlArg = ttl]
           invalid == GenerateValidate(secretKey, userID, action, ttl)
       IN  IF invalid # NoErr
           THEN /\ GenerateReject(p, c, invalid)
                /\ UNCHANGED <<users, rlLog, ioErrs, ioLog>>
           ELSE IF ~Limited
           THEN /\ Goto(p, c, "mint")
                /\ UNCHANGED <<users, rlLog, ioErrs, ioLog, data, pttl, nextID, generated>>
           ELSE \E io \in IOOutcomes(cfg.rateLimiter) :
                    LET r == CheckAndIncrement(users, userID, cfg.rateLimit, cfg.rateWindow)
                        err == IF io = "ok" THEN r.err ELSE ErrIO
                    IN  /\ users' = IF io = "fail" THEN users ELSE r.users
                        /\ rlLog' = Append(rlLog, [userID |-> userID, at |-> now, err |-> err])
                        /\ ioErrs' = IOCount(io)
                        /\ ioLog' = IOLogged(io, "CheckAndIncrement", 0)
                        /\ IF err # NoErr
                           THEN GenerateReject(p, [c EXCEPT !.logAt = Len(rlLog) + 1], err)
                           ELSE /\ Goto(p, [c EXCEPT !.logAt = Len(rlLog) + 1], "mint")
                                /\ UNCHANGED <<data, pttl, nextID, generated>>
    /\ UNCHANGED <<cfg, now, verifyOK>>

\* Generate: clamp, uuid.New, m.now, the Token
GenerateMint(p) ==
    /\ pc[p] = "mint"
    /\ LET ttl == ClampTTL(call[p].ttl)
           id == nextID + 1
           token == [ID |-> id, UserID |-> call[p].userID, Action |-> call[p].action,
                     ExpiresAt |-> now + ttl, Used |-> FALSE]
       IN  /\ nextID' = id
           /\ Goto(p, [call[p] EXCEPT !.ttl = ttl, !.tokenID = id, !.token = token,
                                      !.nowRead = now, !.reads = @ + 1], "save")
    /\ UNCHANGED <<cfg, now, data, pttl, users, generated, verifyOK, rlLog, ioErrs, ioLog>>

\* Generate that gives the unit of quota back when Store.Save fails
GenerateSaveRollback(p) ==
    /\ pc[p] = "save"
    /\ \E io \in IOOutcomes(cfg.store) :
           LET s == StoreSave(data, pttl, call[p].token, call[p].ttl)
               signature == Sign(call[p].secretKey, call[p].tokenID)
               payload == EncodePayload(UUIDString(call[p].tokenID), signature)
               c == [call[p] EXCEPT !.storeOps = Append(@, "Save"), !.savedAt = now,
                                    !.idArg = IF io = "ok" THEN UUIDString(call[p].tokenID)
                                                           ELSE @,
                                    !.sigArg = IF io = "ok" THEN signature ELSE @]
           IN  /\ data' = IF io = "fail" THEN data ELSE s.data
               /\ pttl' = IF io = "fail" THEN pttl ELSE s.pttl
               /\ ioErrs' = IOCount(io)
               /\ ioLog' = IOLogged(io, "Save", call[p].tokenID)
               /\ IF io # "ok"
                  THEN /\ Return(p, c, Failure(ErrIO))
                       /\ users' = IF call[p].logAt > 0
                                   THEN [users EXCEPT ![call[p].userID] =
                                            [@ EXCEPT !.count = @ - 1]]
                                   ELSE users
                       /\ UNCHANGED generated
                  ELSE /\ Return(p, c, [err |-> NoErr, token |-> call[p].token,
                                        payload |-> payload])
                       /\ UNCHANGED users
                       /\ generated' = Put(generated, call[p].tokenID, call[p].token)
    /\ UNCHANGED <<cfg, now, nextID, verifyOK, rlLog>>

\* Generate that reads the clock again for the token it saves
GenerateSaveReread(p) ==
    /\ pc[p] = "save"
    /\ \E io \in IOOutcomes(cfg.store) :
           LET token == [call[p].token EXCEPT !.ExpiresAt = now + call[p].ttl]
               s == StoreSave(data, pttl, token, call[p].ttl)
               signature == Sign(call[p].secretKey, call[p].tokenID)
               payload == EncodePayload(UUIDString(call[p].tokenID), signature)
               c == [call[p] EXCEPT !.storeOps = Append(@, "Save"), !.savedAt = now,
                                    !.token = token, !.reads = @ + 1,
                                    !.idArg = IF io = "ok" THEN UUIDString(call[p].tokenID)
                                                           ELSE @,
                                    !.sigArg = IF io = "ok" THEN signature ELSE @]
           IN  /\ data' = IF io = "fail" THEN data ELSE s.data
               /\ pttl' = IF io = "fail" THEN pttl ELSE s.pttl
               /\ ioErrs' = IOCount(io)
               /\ ioLog' = IOLogged(io, "Save", call[p].tokenID)
               /\ IF io # "ok"
                  THEN /\ Return(p, c, Failure(ErrIO))
                       /\ UNCHANGED generated
                  ELSE /\ Return(p, c, [err |-> NoErr, token |-> token,
                                        payload |-> payload])
                       /\ generated' = Put(generated, call[p].tokenID, token)
    /\ UNCHANGED <<cfg, now, users, nextID, verifyOK, rlLog>>

\* Generate: Store.Save, Sign, EncodePayload
GenerateSave(p) ==
    /\ pc[p] = "save"
    /\ \E io \in IOOutcomes(cfg.store) :
           LET s == StoreSave(data, pttl, call[p].token, call[p].ttl)
               signature == Sign(call[p].secretKey, call[p].tokenID)
               payload == EncodePayload(UUIDString(call[p].tokenID), signature)
               c == [call[p] EXCEPT !.storeOps = Append(@, "Save"), !.savedAt = now,
                                    !.idArg = IF io = "ok" THEN UUIDString(call[p].tokenID)
                                                           ELSE @,
                                    !.sigArg = IF io = "ok" THEN signature ELSE @]
           IN  /\ data' = IF io = "fail" THEN data ELSE s.data
               /\ pttl' = IF io = "fail" THEN pttl ELSE s.pttl
               /\ ioErrs' = IOCount(io)
               /\ ioLog' = IOLogged(io, "Save", call[p].tokenID)
               /\ IF io # "ok"
                  THEN /\ Return(p, c, Failure(ErrIO))
                       /\ UNCHANGED generated
                  ELSE /\ Return(p, c, [err |-> NoErr, token |-> call[p].token,
                                        payload |-> payload])
                       /\ generated' = Put(generated, call[p].tokenID, call[p].token)
    /\ UNCHANGED <<cfg, now, users, nextID, verifyOK, rlLog>>

\* a caller encodes a pair and decodes what it got
RoundTrip(p, id, signature) ==
    /\ CanBegin(p)
    /\ LET encoded == EncodePayload(id, signature)
           d == DecodePayload(encoded)
           c == [IdleCall EXCEPT !.op = "RoundTrip", !.idArg = id, !.sigArg = signature,
                                 !.encoded = encoded]
       IN  Return(p, c, [err |-> d.err, token |-> ZeroToken, payload |-> encoded,
                         ID |-> d.ID, Sig |-> d.Sig])
    /\ UNCHANGED <<cfg, now, data, pttl, users, nextID, generated, verifyOK, rlLog,
                   ioErrs, ioLog>>

\* Verify that does not compare the signature
VerifyPrecheckNoSignature(secretKey, encoded) ==
    LET d == DecodePayload(encoded)
        u == UUIDParse(d.ID)
    IN  IF secretKey = "" THEN [err |-> ErrInvalid, id |-> 0]
        ELSE IF d.err # NoErr THEN [err |-> d.err, id |-> 0]
        ELSE IF u.err # NoErr THEN [err |-> ErrBadPayload, id |-> 0]
        ELSE [err |-> NoErr, id |-> u.id]

\* Verify before the store: secret, DecodePayload, uuid.Parse, Signer.Verify
VerifyPrecheck(secretKey, encoded) ==
    LET d == DecodePayload(encoded)
        u == UUIDParse(d.ID)
    IN  IF secretKey = "" THEN [err |-> ErrInvalid, id |-> 0]
        ELSE IF d.err # NoErr THEN [err |-> d.err, id |-> 0]
        ELSE IF u.err # NoErr THEN [err |-> ErrBadPayload, id |-> 0]
        ELSE IF ~SignerVerify(secretKey, u.id, d.Sig) THEN [err |-> ErrBadSignature, id |-> 0]
        ELSE [err |-> NoErr, id |-> u.id]

\* Verify up to the answer of Store.Get
VerifyBegin(p, secretKey, encoded) ==
    /\ CanBegin(p)
    /\ LET pre == VerifyPrecheck(secretKey, encoded)
           c == [IdleCall EXCEPT !.op = "Verify", !.secretKey = secretKey,
                                 !.encoded = encoded, !.tokenID = pre.id,
                                 !.priorOK = pre.id \in DOMAIN verifyOK]
       IN  IF pre.err # NoErr
           THEN /\ Return(p, c, Failure(pre.err))
                /\ UNCHANGED <<ioErrs, ioLog>>
           ELSE \E io \in IOOutcomes(cfg.store) \ {"lost"} :
                    LET g == StoreGet(data, pttl, pre.id)
                        err == IF io = "ok" THEN g.err ELSE ErrIO
                        cg == [c EXCEPT !.storeOps = Append(@, "Get")]
                    IN  /\ ioErrs' = IOCount(io)
                        /\ ioLog' = IOLogged(io, "Get", pre.id)
                        /\ IF err # NoErr
                           THEN Return(p, cg, Failure(err))
                           ELSE Goto(p, [cg EXCEPT !.token = g.token], "check")
    /\ UNCHANGED <<cfg, now, data, pttl, users, nextID, generated, verifyOK, rlLog>>

\* Verify without the used check on the snapshot
VerifyCheckNoUsed(p) ==
    /\ pc[p] = "check"
    /\ LET c == [call[p] EXCEPT !.nowRead = now, !.reads = @ + 1]
       IN  IF call[p].token.ExpiresAt < now
           THEN Return(p, c, Failure(ErrExpired))
           ELSE Goto(p, c, "mark")
    /\ UNCHANGED <<cfg, now, data, pttl, users, nextID, generated, verifyOK, rlLog, ioErrs, ioLog>>

\* Verify that takes the instant expiresAt as expired
VerifyCheckInclusive(p) ==
    /\ pc[p] = "check"
    /\ LET c == [call[p] EXCEPT !.nowRead = now, !.reads = @ + 1]
       IN  IF call[p].token.ExpiresAt <= now
           THEN Return(p, c, Failure(ErrExpired))
           ELSE IF call[p].token.Used
           THEN Return(p, c, Failure(ErrUsed))
           ELSE Goto(p, c, "mark")
    /\ UNCHANGED <<cfg, now, data, pttl, users, nextID, generated, verifyOK, rlLog, ioErrs, ioLog>>

\* Verify that checks used before expiry
VerifyCheckUsedFirst(p) ==
    /\ pc[p] = "check"
    /\ LET c == [call[p] EXCEPT !.nowRead = now, !.reads = @ + 1]
       IN  IF call[p].token.Used
           THEN Return(p, c, Failure(ErrUsed))
           ELSE IF call[p].token.ExpiresAt < now
           THEN Return(p, c, Failure(ErrExpired))
           ELSE Goto(p, c, "mark")
    /\ UNCHANGED <<cfg, now, data, pttl, users, nextID, generated, verifyOK, rlLog, ioErrs, ioLog>>

\* Verify that deletes the record it finds expired
VerifyCheckEvict(p) ==
    /\ pc[p] = "check"
    /\ LET c == [call[p] EXCEPT !.nowRead = now, !.reads = @ + 1]
       IN  IF call[p].token.ExpiresAt < now
           THEN /\ Return(p, c, Failure(ErrExpired))
                /\ data' = [id \in DOMAIN data \ {call[p].tokenID} |-> data[id]]
           ELSE IF call[p].token.Used
           THEN Return(p, c, Failure(ErrUsed)) /\ UNCHANGED data
           ELSE Goto(p, c, "mark") /\ UNCHANGED data
    /\ UNCHANGED <<cfg, now, pttl, users, nextID, generated, verifyOK, rlLog, ioErrs, ioLog>>

\* Verify: m.now, the expiry check, the used check on the snapshot
VerifyCheck(p) ==
    /\ pc[p] = "check"
    /\ LET c == [call[p] EXCEPT !.nowRead = now, !.reads = @ + 1]
       IN  IF call[p].token.ExpiresAt < now
           THEN Return(p, c, Failure(ErrExpired))
           ELSE IF call[p].token.Used
           THEN Return(p, c, Failure(ErrUsed))
           ELSE Goto(p, c, "mark")
    /\ UNCHANGED <<cfg, now, data, pttl, users, nextID, generated, verifyOK, rlLog, ioErrs, ioLog>>

\* Verify that takes a failed MarkUsed for a token already used
VerifyMarkCoerced(p) ==
    /\ pc[p] = "mark"
    /\ \E io \in IOOutcomes(cfg.store) :
           LET m == StoreMarkUsed(data, pttl, call[p].tokenID)
               err == IF io = "ok" THEN m.err ELSE ErrUsed
               c == [call[p] EXCEPT !.storeOps = Append(@, "MarkUsed")]
           IN  /\ data' = IF io = "fail" THEN data ELSE m.data
               /\ pttl' = IF io = "fail" THEN pttl ELSE m.pttl
               /\ ioErrs' = IOCount(io)
               /\ ioLog' = IOLogged(io, "MarkUsed", call[p].tokenID)
               /\ IF err # NoErr
                  THEN /\ Return(p, c, Failure(err))
                       /\ UNCHANGED verifyOK
                  ELSE /\ Return(p, c, [err |-> NoErr,
                                        token |-> [call[p].token EXCEPT !.Used = TRUE],
                                        payload |-> EmptyPayload])
                       /\ verifyOK' = Put(verifyOK, call[p].tokenID,
                                          IF call[p].tokenID \in DOMAIN verifyOK
                                          THEN verifyOK[call[p].tokenID] + 1 ELSE 1)
    /\ UNCHANGED <<cfg, now, users, nextID, generated, rlLog>>

\* Verify: Store.MarkUsed and the return
VerifyMark(p) ==
    /\ pc[p] = "mark"
    /\ \E io \in IOOutcomes(cfg.store) :
           LET m == StoreMarkUsed(data, pttl, call[p].tokenID)
               err == IF io = "ok" THEN m.err ELSE ErrIO
               c == [call[p] EXCEPT !.storeOps = Append(@, "MarkUsed")]
           IN  /\ data' = IF io = "fail" THEN data ELSE m.data
               /\ pttl' = IF io = "fail" THEN pttl ELSE m.pttl
               /\ ioErrs' = IOCount(io)
               /\ ioLog' = IOLogged(io, "MarkUsed", call[p].tokenID)
               /\ IF err # NoErr
                  THEN /\ Return(p, c, Failure(err))
                       /\ UNCHANGED verifyOK
                  ELSE /\ Return(p, c, [err |-> NoErr,
                                        token |-> [call[p].token EXCEPT !.Used = TRUE],
                                        payload |-> EmptyPayload])
                       /\ verifyOK' = Put(verifyOK, call[p].tokenID,
                                          IF call[p].tokenID \in DOMAIN verifyOK
                                          THEN verifyOK[call[p].tokenID] + 1 ELSE 1)
    /\ UNCHANGED <<cfg, now, users, nextID, generated, rlLog>>

\* time passes
Tick ==
    /\ now < MaxTime
    /\ now' = now + 1
    /\ UNCHANGED <<cfg, data, pttl, users, nextID, pc, call, last, generated, verifyOK,
                   rlLog, ioErrs, ioLog>>

(***************************************************************************)
(* The inputs of the calls.                                                *)
(***************************************************************************)
\* one call for each argument check of Generate that fails
InvalidInputs ==
    {<<"", "u1", "login", 1>>, <<"s", "", "login", 1>>,
     <<"s", "u1", "", 1>>, <<"s", "u1", "login", 0>>, <<"s", "u1", "login", -1>>}

\* one subject asking for tokens of every lifetime
GenerateInputs ==
    {<<"s", "u1", a, t>> : a \in Actions, t \in TTLs} \cup InvalidInputs

\* one subject asking for tokens of one lifetime
RateInputs ==
    {<<"s", "u1", a, 2>> : a \in Actions} \cup InvalidInputs

\* two subjects asking for tokens
UserInputs == {<<"s", u, a, 2>> : u \in {"u1", "u2"}, a \in Actions}

\* one subject asking for lifetimes below, between and above the bounds
TTLInputs == {<<"s", "u1", a, t>> : a \in Actions, t \in {1, 3, 5}}

\* what a payload can carry as its signature for id: the issuer's, or an
\* altered one
Signatures(id) == {Sign("s", id), Tamper(Sign("s", id))}

\* JSON objects that lack a field: {}, {"sig": ...}, {"id": ...}
Incomplete ==
    {JSONObject({}, NoID, NoSig),
     JSONObject({"sig"}, NoID, Sign("s", FabricatedID)),
     JSONObject({"id"}, UUIDString(FabricatedID), NoSig)}

\* the payloads a caller can present: malformed ones, and every signature
\* over the identifier of every payload Generate has returned and over a
\* fabricated one
VerifyPayloads ==
    {NotBase64, NotJSON, EncodePayload(BadIDString, Sign("s", 0))}
        \cup UNION {{EncodePayload(UUIDString(id), sig) : sig \in Signatures(id)} :
                         id \in DOMAIN generated \cup {FabricatedID}}

VerifySecrets == Secrets \cup {""}

\* identifier strings: canonical, malformed, empty, not UTF-8
IDStrings == {UUIDString(n) : n \in 0..MaxCodecID} \cup {BadIDString, NoID, RawIDString}

\* signature strings: signatures, altered ones, empty, not UTF-8
SigStrings ==
    {Sign(k, n) : k \in Secrets, n \in 0..MaxCodecID}
        \cup {Tamper(Sign(k, n)) : k \in Secrets, n \in 0..MaxCodecID}
        \cup {NoSig, RawSig}

Generate(inputs) ==
    \/ \E p \in Procs : \E in \in inputs :
           GenerateBegin(p, in[1], in[2], in[3], in[4])
    \/ \E p \in Procs : GenerateMint(p)
    \/ \E p \in Procs : GenerateSave(p)

VerifyOf(payloads) ==
    \/ \E p \in Procs : \E k \in VerifySecrets : \E e \in payloads :
           VerifyBegin(p, k, e)
    \/ \E p \in Procs : VerifyCheck(p)
    \/ \E p \in Procs : VerifyMark(p)

Verify == VerifyOf(VerifyPayloads)

Next == Generate(GenerateInputs) \/ Verify \/ Tick

NextRate == Generate(RateInputs) \/ Tick

NextTTL == Generate(TTLInputs) \/ Tick

Codec == \E p \in Procs : \E id \in IDStrings : \E sig \in SigStrings : RoundTrip(p, id, sig)

NextCodec == Codec \/ Generate(GenerateInputs)

NextFrame == Verify \/ Tick

NextUsers == Generate(UserInputs) \/ Tick

NextPayload == Generate(GenerateInputs) \/ VerifyOf(VerifyPayloads \cup Incomplete)

\* goroutines calling the Manager concurrently
Spec == Init /\ [][Next]_vars

\* one caller at a time
SpecSeq == InitSeq /\ [][Next]_vars

\* goroutines minting tokens under a rate limit
SpecRate == InitRate /\ [][NextRate]_vars

\* goroutines minting tokens under TTL bounds
SpecTTL == InitTTL /\ [][NextTTL]_vars

\* one caller at a time using the codec and minting tokens
SpecCodec == InitSeq /\ [][NextCodec]_vars

\* two subjects minting tokens under a rate limit, one call at a time
SpecUsers == InitUsers /\ [][NextUsers]_vars

\* goroutines redeeming the tokens of a store that holds two
SpecFrame == InitFrame /\ [][NextFrame]_vars

\* one caller at a time presenting payloads of every shape
SpecPayload == InitSeq /\ [][NextPayload]_vars

(***************************************************************************)
(* Vocabulary of the properties.                                           *)
(***************************************************************************)
\* the identifier a payload carries, when it carries one
PayloadID(encoded) == UUIDParse(DecodePayload(encoded).ID).id

\* the call that returned last is a Verify whose payload is well formed and
\* carries the signature of its identifier under the secret of the call
LastVerified ==
    /\ last.call.op = "Verify"
    /\ VerifyPrecheck(last.call.secretKey, last.call.encoded).err = NoErr

\* ... and it fetched the record and read the clock
LastChecked == LastVerified /\ last.call.nowRead >= 0

\* Generate returned the token id, it has not expired (so has never been
\* expired or evicted), and no command of the store or limiter has failed
Active(id) ==
    /\ id \in DOMAIN generated
    /\ now <= generated[id].ExpiresAt
    /\ ioErrs = 0

Successes(id) == IF id \in DOMAIN verifyOK THEN verifyOK[id] ELSE 0

\* of the Verify calls made on an active token exactly one succeeds and
\* every other one fails with ErrUsed
SingleUse(id) ==
    /\ Successes(id) <= 1
    /\ LastVerified /\ last.call.tokenID = id /\ Active(id)
           => /\ last.result.err \in {NoErr, ErrUsed}
              /\ Successes(id) = 1

\* C1: with MemoryStore, of the Verify calls that run concurrently on one
\* stored, unused, unexpired token with the right secret, exactly one
\* succeeds and every other one fails with ErrUsed.
\* MemoryStore.MarkUsed does not test the flag: two calls that both fetched
\* the record before either marked it both succeed.
C1_MemorySingleUse ==
    cfg.store = "memory" => \A id \in DOMAIN generated : SingleUse(id)

\* C2: with RedisStore, of the Verify calls that run concurrently on one
\* stored, unused, unexpired token with the right secret, exactly one
\* succeeds and every other one fails with ErrUsed, the caller included
\* whose snapshot showed used = false and whose MarkUsed lost the race.
C2_RedisSingleUse ==
    cfg.store = "redis" => \A id \in DOMAIN generated : SingleUse(id)

\* a Verify on redis that fetched an unused record and lost the race
C2_Witness ==
    /\ cfg.store = "redis"
    /\ LastVerified
    /\ Active(last.call.tokenID)
    /\ last.call.token.Used = FALSE
    /\ last.call.storeOps = <<"Get", "MarkUsed">>
    /\ last.result.err = ErrUsed
    /\ Successes(last.call.tokenID) = 1

\* C3: calls made one after the other: the first Verify of a payload that
\* Generate returned, made while the token is unexpired, succeeds and returns
\* the generated token with used = true; every later Verify of it made while
\* the token is unexpired and stored fails with ErrUsed.
C3_SequentialSingleUse ==
    \A id \in DOMAIN generated :
        LastVerified /\ last.call.tokenID = id /\ Active(id)
            => IF last.call.priorOK
               THEN last.result = Failure(ErrUsed)
               ELSE /\ last.result.err = NoErr
                    /\ last.result.token = [generated[id] EXCEPT !.Used = TRUE]

\* a second Verify of a payload, turned down with ErrUsed
C3_Witness ==
    /\ LastVerified
    /\ Active(last.call.tokenID)
    /\ last.call.priorOK
    /\ last.result.err = ErrUsed

\* the payload of the call decodes, carries an identifier, and its signature
\* is not the signature of that identifier under the secret of the call
SignatureMismatch(c) ==
    /\ c.op = "Verify"
    /\ DecodePayload(c.encoded).err = NoErr
    /\ UUIDParse(DecodePayload(c.encoded).ID).err = NoErr
    /\ DecodePayload(c.encoded).Sig # Sign(c.secretKey, PayloadID(c.encoded))

\* C4 as stated: Verify fails with ErrBadSignature whenever the signature of
\* the payload is not Sign(secret, id), and makes no call of the store.
C4_AsStated ==
    SignatureMismatch(last.call)
        => last.result = Failure(ErrBadSignature) /\ last.call.storeOps = <<>>

\* C4, amended: for a secret that is not empty, Verify fails with
\* ErrBadSignature whenever the signature of the payload is not
\* Sign(secret, id), whatever the store holds for id, and makes no call of
\* the store.  (With the empty secret Verify fails with "secret key is
\* required" before it decodes the payload.)
C4_BadSignature ==
    SignatureMismatch(last.call) /\ last.call.secretKey # ""
        => last.result = Failure(ErrBadSignature) /\ last.call.storeOps = <<>>

\* a Verify under the wrong secret of a payload whose token is stored and used
C4_Witness ==
    /\ SignatureMismatch(last.call)
    /\ last.call.secretKey = "wrong"
    /\ last.result.err = ErrBadSignature
    /\ PayloadID(last.call.encoded) \in DOMAIN data
    /\ Stored(PayloadID(last.call.encoded)).Used

\* C5: a record of the store keeps its id, subject, action and expiresAt for
\* good, and its used flag, once true, stays true (so the flag goes from
\* false to true at most once); no record leaves the mapping.
C5_RecordsImmutable ==
    [][\A id \in DOMAIN data :
           /\ id \in DOMAIN data'
           /\ Stored(id)'.ID = Stored(id).ID
           /\ Stored(id)'.UserID = Stored(id).UserID
           /\ Stored(id)'.Action = Stored(id).Action
           /\ Stored(id)'.ExpiresAt = Stored(id).ExpiresAt
           /\ Stored(id).Used => Stored(id)'.Used]_vars

\* a record marked used, after a Verify that found it used
C5_Witness ==
    /\ LastVerified
    /\ last.call.tokenID \in DOMAIN data
    /\ "MarkUsed" \in {last.call.storeOps[i] : i \in DOMAIN last.call.storeOps}
    /\ last.call.tokenID \in DOMAIN generated
    /\ Stored(last.call.tokenID) = [generated[last.call.tokenID] EXCEPT !.Used = TRUE]

\* C6: calls made one after the other: a Verify of a correctly signed payload
\* that finds the record never used and reads the clock past expiresAt fails
\* with ErrExpired and leaves the used flag false; a Verify that reads the
\* clock at or before expiresAt does not fail with ErrExpired.
C6_Expiry ==
    /\ LastChecked /\ ~last.call.token.Used
           /\ last.call.nowRead > last.call.token.ExpiresAt
           => /\ last.result = Failure(ErrExpired)
              /\ last.call.storeOps = <<"Get">>
              /\ ~Stored(last.call.tokenID).Used
    /\ last.call.op = "Verify" /\ last.result.err = ErrExpired
           => LastChecked /\ last.call.nowRead > last.call.token.ExpiresAt

\* a never used token turned down as expired
C6_Witness ==
    /\ LastChecked
    /\ ~last.call.token.Used
    /\ last.call.nowRead > last.call.token.ExpiresAt
    /\ last.result.err = ErrExpired
    /\ ~Stored(last.call.tokenID).Used

\* C7: Verify reports the first check that fails, in the order BadPayload,
\* BadSignature, NotFound, Expired, Used: a correctly signed payload with no
\* record fails with ErrNotFound; a record past expiresAt fails with
\* ErrExpired, used or not; ErrUsed is reported only for a record that exists
\* and is not expired.
C7_CheckOrder ==
    last.call.op = "Verify" =>
        /\ last.call.secretKey # "" /\ DecodePayload(last.call.encoded).err # NoErr
               => last.result.err = ErrBadPayload
        /\ last.call.secretKey # "" /\ DecodePayload(last.call.encoded).err = NoErr
               /\ UUIDParse(DecodePayload(last.call.encoded).ID).err # NoErr
               => last.result.err = ErrBadPayload
        /\ last.result.err = ErrBadSignature => SignatureMismatch(last.call)
        /\ last.result.err = ErrNotFound => LastVerified
        /\ LastVerified /\ last.call.tokenID \notin DOMAIN data /\ ioErrs = 0
               => last.result.err = ErrNotFound
        /\ last.result.err = ErrExpired => LastChecked
        /\ LastChecked /\ last.call.nowRead > last.call.token.ExpiresAt
               => last.result.err = ErrExpired
        /\ last.result.err = ErrUsed
               => LastChecked /\ last.call.nowRead <= last.call.token.ExpiresAt

\* a record both used and expired, reported as expired
C7_Witness ==
    /\ LastChecked
    /\ last.call.token.Used
    /\ last.call.nowRead > last.call.token.ExpiresAt
    /\ last.result.err = ErrExpired

(***************************************************************************)
(* Fixed windows, reckoned from the answers of the limiter (rlLog): the    *)
(* first call of a principal opens a window of the length asked for, a     *)
(* call made after a window has elapsed opens the next one.                *)
(***************************************************************************)
\* the last call before the i-th made for the same principal, or 0
PrevCall(log, i) ==
    LET earlier == {j \in 1..(i - 1) : log[j].userID = log[i].userID}
    IN  IF earlier = {} THEN 0 ELSE CHOOSE j \in earlier : \A k \in earlier : k <= j

RECURSIVE WindowOpener(_, _, _)
\* the call that opened the window the i-th call falls in
WindowOpener(log, i, window) ==
    IF PrevCall(log, i) = 0 THEN i
    ELSE LET o == WindowOpener(log, PrevCall(log, i), window)
         IN  IF log[i].at > log[o].at + window THEN i ELSE o

\* the calls of the i-th call's window made before it
EarlierInWindow(log, i, window) ==
    {j \in 1..(i - 1) : /\ log[j].userID = log[i].userID
                        /\ WindowOpener(log, j, window) = WindowOpener(log, i, window)}

\* the calls of the window opened by call o that were allowed
AllowedInWindow(log, o, window) ==
    {j \in 1..Len(log) : /\ log[j].userID = log[o].userID
                         /\ WindowOpener(log, j, window) = o
                         /\ log[j].err = NoErr}

C9_AtMostLimit ==
    Limited /\ ioErrs = 0 =>
        \A o \in 1..Len(rlLog) :
            Cardinality(AllowedInWindow(rlLog, o, cfg.rateWindow)) <= cfg.rateLimit

\* C9, where the expiry of the redis counter is the window asked for: the
\* in-memory limiter, and the redis limiter with a window of whole seconds.
C9_WholeSeconds ==
    cfg.rateLimiter = "memory" \/ cfg.rateWindow % UnitsPerSecond = 0 => C9_AtMostLimit

\* C10: a Generate turned down by the rate limiter returns
\* ErrRateLimitExceeded with no token and no payload, has made no call of the
\* store, and leaves the store as it was.
C10_RejectedLeavesStore ==
    [][Len(rlLog') = Len(rlLog) + 1 /\ rlLog'[Len(rlLog')].err = ErrRateLimitExceeded
           => /\ last'.call.op = "Generate"
              /\ last'.call.logAt = Len(rlLog')
              /\ last'.result = Failure(ErrRateLimitExceeded)
              /\ last'.call.storeOps = <<>>
              /\ data' = data
              /\ pttl' = pttl
              /\ nextID' = nextID
              /\ generated' = generated]_vars

\* a Generate turned down while the store holds a record
C10_Witness ==
    /\ last.call.op = "Generate"
    /\ last.result = Failure(ErrRateLimitExceeded)
    /\ DOMAIN data # {}
    /\ rlLog[Len(rlLog)].err = ErrRateLimitExceeded

(***************************************************************************)
(* TTL bounds.                                                             *)
(***************************************************************************)
\* min(max(ttl, minTTL), maxTTL), a bound of zero not applied
Bounded(ttl) ==
    LET lo == IF cfg.minTTL > 0 THEN Max(ttl, cfg.minTTL) ELSE ttl
    IN  IF cfg.maxTTL > 0 THEN Min(lo, cfg.maxTTL) ELSE lo

\* the bounds are consistent: both set means minTTL <= maxTTL
BoundsOrdered == cfg.minTTL = 0 \/ cfg.maxTTL = 0 \/ cfg.minTTL <= cfg.maxTTL

\* C11: for a Manager whose TTL bounds are consistent, every Generate that
\* succeeds returns and persists a record with expiresAt = now + min(max(ttl,
\* minTTL), maxTTL), now being the clock reading of the call, and passes
\* that clamped duration to Store.Save (with redis the key expires that long
\* after the Save); a bound of zero is not applied.
C11_TTLClamp ==
    BoundsOrdered /\ last.call.op = "Generate" /\ last.result.err = NoErr
        => /\ last.call.nowRead >= 0
           /\ last.result.token.ExpiresAt = last.call.nowRead + Bounded(last.call.ttlArg)
           /\ Stored(last.call.tokenID).ExpiresAt
                  = last.call.nowRead + Bounded(last.call.ttlArg)
           /\ last.call.ttl = Bounded(last.call.ttlArg)
           /\ cfg.store = "redis"
                  => pttl[last.call.tokenID] = last.call.savedAt + Bounded(last.call.ttlArg)

\* tokens whose ttl was raised to minTTL and saved in redis after the clock
\* had moved on from the reading of Generate
C11_Witness ==
    /\ cfg.minTTL > 0 /\ cfg.maxTTL >= cfg.minTTL /\ cfg.store = "redis"
    /\ last.call.op = "Generate" /\ last.result.err = NoErr
    /\ last.call.ttlArg < cfg.minTTL
    /\ last.call.savedAt > last.call.nowRead
    /\ last.result.token.ExpiresAt = last.call.nowRead + cfg.minTTL

(***************************************************************************)
(* The contract of Store.MarkUsed, seen at the step of Verify that calls   *)
(* it.                                                                     *)
(***************************************************************************)
\* the step is the MarkUsed of p's Verify, and the store answered it
MarkUsedAnswered(p) == pc[p] = "mark" /\ pc'[p] = "idle" /\ ioErrs' = ioErrs

\* the step is the MarkUsed of p's Verify, and the command failed
MarkUsedFailed(p) == pc[p] = "mark" /\ pc'[p] = "idle" /\ ioErrs' = ioErrs + 1

\* the store holds a record for id
Held(id) == StoreGet(data, pttl, id).err = NoErr

\* C12: for each Store, MarkUsed(id) returns ErrNotFound and creates no
\* record when the store holds none for id, returns ErrUsed and leaves the
\* record as it is when its used flag is true, and otherwise sets the flag
\* and returns nil; so of two MarkUsed calls for one id at most one returns
\* nil.
\* MemoryStore.MarkUsed sets the flag without testing it and returns nil for
\* a record already used.
C12_MarkUsedContract ==
    [][\A p \in Procs :
           \A id \in {call[p].tokenID} :
               MarkUsedAnswered(p) =>
                   IF ~Held(id)
                   THEN last'.result.err = ErrNotFound /\ data' = data
                   ELSE IF Stored(id).Used
                   THEN last'.result.err = ErrUsed /\ data' = data /\ pttl' = pttl
                   ELSE last'.result.err = NoErr /\ Stored(id)'.Used]_vars

\* C13: a MarkUsed that fails with an error of the backend, in a Verify
\* whose checks all passed, makes Verify return that error and no token; if
\* the command was not applied the record is as it was, and (calls made one
\* after the other) a Verify of the payload made while the token is
\* unexpired is never turned down as used, expired or missing: it succeeds
\* unless it is the call the command failed in.
C13_MarkUsedIOError ==
    /\ [][\A p \in Procs :
              MarkUsedFailed(p) =>
                  /\ last'.result = Failure(ErrIO)
                  /\ last'.call.storeOps = <<"Get", "MarkUsed">>
                  /\ verifyOK' = verifyOK
                  /\ ioLog'[Len(ioLog')].io = "fail" => data' = data /\ pttl' = pttl]_vars
    /\ [](\A id \in DOMAIN generated :
              /\ ioLog = <<[op |-> "MarkUsed", id |-> id, io |-> "fail"]>>
              /\ LastVerified /\ last.call.tokenID = id /\ ~last.call.priorOK
              /\ now <= generated[id].ExpiresAt
              => last.result.err \in {NoErr, ErrIO})

\* a Verify that succeeds after the MarkUsed of an earlier one failed
\* without being applied
C13_Witness ==
    /\ cfg.store = "redis"
    /\ LastVerified
    /\ ioLog = <<[op |-> "MarkUsed", id |-> last.call.tokenID, io |-> "fail"]>>
    /\ last.result.err = NoErr
    /\ last.result.token.Used
    /\ Successes(last.call.tokenID) = 1

\* C14: when Store.Save fails, Generate returns the error of the store, no
\* token and no payload, and the store holds no record for the identifier
\* it minted.
\* A SET that ran on the server and whose reply was lost is an error of
\* Save; Generate does not take the record back.
C14_SaveFailure ==
    last.call.op = "Generate" /\ last.call.storeOps = <<"Save">> /\ last.result.err # NoErr
        => /\ last.result = Failure(ErrIO)
           /\ ~Held(last.call.tokenID)

\* C14 for a Save that failed before the command ran
C14_NotApplied ==
    /\ last.call.op = "Generate" /\ last.call.storeOps = <<"Save">>
    /\ last.result.err # NoErr
    /\ ioLog # <<>> /\ ioLog[Len(ioLog)].io = "fail"
    => /\ last.result = Failure(ErrIO)
       /\ ~Held(last.call.tokenID)

\* the arguments of the call fail a check of Generate
InvalidArguments(c) ==
    c.secretKey = "" \/ c.userID = "" \/ c.action = "" \/ c.ttlArg <= 0

\* C15: Generate called with an empty secret, an empty subject, an empty
\* action or ttl <= 0 fails with an invalid-argument error, returns no token
\* and no payload, and leaves the store and the counters of the rate limiter
\* as they were: the arguments are checked before the limiter is consulted.
C15_InvalidArguments ==
    [][last' # last /\ last'.call.op = "Generate" /\ InvalidArguments(last'.call)
           => /\ last'.result = Failure(ErrInvalid)
              /\ last'.call.storeOps = <<>>
              /\ last'.call.logAt = 0
              /\ data' = data
              /\ pttl' = pttl
              /\ nextID' = nextID
              /\ users' = users
              /\ rlLog' = rlLog]_vars

\* a Generate with ttl <= 0 for a subject whose quota is used up in the
\* current window
C15_Witness ==
    /\ last.call.op = "Generate"
    /\ last.call.ttlArg <= 0
    /\ last.call.userID \in DOMAIN users
    /\ users[last.call.userID].count >= cfg.rateLimit
    /\ now <= users[last.call.userID].windowEnd
    /\ last.result = Failure(ErrInvalid)

\* C16: for each Store, once more than ttl has elapsed since Save(token,
\* ttl) the store no longer holds the record: Get(id) returns ErrNotFound.
\* MemoryStore.Save ignores ttl and nothing ever deletes from its map.
C16_Eviction ==
    /\ last.call.op = "Generate" /\ last.result.err = NoErr
    /\ now > last.call.savedAt + last.call.ttl
    => StoreGet(data, pttl, last.call.tokenID).err = ErrNotFound

\* C16 for RedisStore, for a token that no Verify has marked
C16_RedisUnmarked ==
    /\ cfg.store = "redis"
    /\ last.call.op = "Generate" /\ last.result.err = NoErr
    /\ now > last.call.savedAt + last.call.ttl
    => StoreGet(data, pttl, last.call.tokenID).err = ErrNotFound

\* C17: RedisStore.MarkUsed keeps the remaining time-to-live of the record:
\* when it sets the used flag on a key with remaining TTL r > 0, the key it
\* rewrites has remaining TTL r, so the instant the key is evicted at is
\* neither reset nor put off.
C17_TTLPreserved ==
    [][cfg.store = "redis" =>
           \A id \in DOMAIN data :
               /\ RedisKeyExists(data, pttl, id)
               /\ ~data[id].used /\ data'[id].used
               /\ RedisPTTL(pttl, id) > 0
               => /\ RedisPTTL(pttl', id) = RedisPTTL(pttl, id)
                  /\ pttl'[id] = pttl[id]]_vars

\* a token in redis marked used part of the way through its lifetime and
\* still due to be evicted when it was
C17_Witness ==
    /\ cfg.store = "redis"
    /\ LastVerified /\ last.result.err = NoErr
    /\ last.call.nowRead > 0
    /\ last.call.tokenID \in DOMAIN generated
    /\ data[last.call.tokenID].used
    /\ now < pttl[last.call.tokenID]
    /\ pttl[last.call.tokenID] = generated[last.call.tokenID].ExpiresAt

\* the payload is not base64url, or not a JSON object, or lacks a field
Undecodable(encoded) ==
    ~encoded.b64 \/ ~encoded.json \/ encoded.fields # PayloadFields

\* ... or its id is not a well-formed identifier
Malformed(encoded) ==
    Undecodable(encoded) \/ UUIDParse(DecodePayload(encoded).ID).err # NoErr

\* C18: Verify (called with a secret that is not empty) fails with
\* ErrBadPayload, before any signature check or store access, whenever the
\* payload is not unpadded URL-safe base64, or its bytes are not a
\* well-formed object, or the object lacks the id field or the sig field, or
\* the id is not a well-formed identifier; DecodePayload fails with
\* ErrBadPayload in the first three cases.
\* json.Unmarshal leaves a missing field empty without an error: a payload
\* without sig gets as far as the signature check and fails there.
C18_BadPayload ==
    last.call.op = "Verify" /\ last.call.secretKey # "" /\ Malformed(last.call.encoded)
        => /\ last.result = Failure(ErrBadPayload)
           /\ last.call.storeOps = <<>>
           /\ Undecodable(last.call.encoded)
                  => DecodePayload(last.call.encoded).err = ErrBadPayload

\* C18 as far as the code goes: for a secret that is not empty, a payload
\* that is not base64url or not a JSON object, or whose id (missing ones
\* included) is not a well-formed identifier, fails with ErrBadPayload
\* before any store access.
C18_Undecoded ==
    /\ last.call.op = "Verify" /\ last.call.secretKey # ""
    /\ \/ DecodePayload(last.call.encoded).err # NoErr
       \/ UUIDParse(DecodePayload(last.call.encoded).ID).err # NoErr
    => /\ last.result = Failure(ErrBadPayload)
       /\ last.call.storeOps = <<>>

\* the string is valid UTF-8
ValidUTF8(str) == str \notin {RawIDString, RawSig}

\* the payload Generate returned decodes to the identifier of the token and
\* to its signature under the secret of the call
GeneratedDecodes ==
    last.call.op = "Generate" /\ last.result.err = NoErr
        => DecodePayload(last.result.payload)
               = [err |-> NoErr, ID |-> UUIDString(last.result.token.ID),
                  Sig |-> Sign(last.call.secretKey, last.result.token.ID)]

C20_SameWindows ==
    cfg.rateLimiter = "redis" /\ ioErrs = 0 =>
        \A i \in 1..Len(rlLog) :
            rlLog[i].err = (IF Cardinality(EarlierInWindow(rlLog, i, cfg.rateWindow))
                                  < cfg.rateLimit
                            THEN NoErr ELSE ErrRateLimitExceeded)

\* C20 for windows of whole seconds
C20_WholeSeconds ==
    cfg.rateWindow % UnitsPerSecond = 0 => C20_SameWindows

\* both TTL bounds are set and minTTL is above maxTTL
Misconfigured(config) ==
    config.minTTL > 0 /\ config.maxTTL > 0 /\ config.minTTL > config.maxTTL

\* C21: constructing a Manager with both bounds set and minTTL > maxTTL
\* fails, so that no Manager serves Generate under such bounds and no
\* Generate persists a token that lives longer than a configured maxTTL or
\* shorter than a configured minTTL.
\* newManager checks the store alone; Generate then clamps to maxTTL and
\* back up to minTTL.
C21_ConstructorValidation ==
    last.call.op = "Generate" /\ last.result.err = NoErr
        => /\ newManager(cfg).err = NoErr => ~Misconfigured(cfg)
           /\ cfg.maxTTL > 0
                  => last.result.token.ExpiresAt - last.call.nowRead <= cfg.maxTTL
           /\ cfg.minTTL > 0
                  => last.result.token.ExpiresAt - last.call.nowRead >= cfg.minTTL

\* C21 for the Managers whose bounds are consistent
C21_Consistent ==
    ~Misconfigured(cfg) => C21_ConstructorValidation

\* the Verify that returns in this step fails before it reaches MarkUsed
VerifyTurnedDown ==
    /\ last' # last
    /\ last'.call.op = "Verify"
    /\ \/ last'.result.err \in {ErrBadPayload, ErrBadSignature, ErrNotFound, ErrExpired}
       \/ last'.result.err = ErrUsed /\ last'.call.storeOps = <<"Get">>

\* C22: a Verify that fails with ErrBadPayload, ErrBadSignature,
\* ErrNotFound, ErrExpired or ErrUsed (from the check of the fetched
\* snapshot) leaves the store exactly as it was; the store changes only in
\* the MarkUsed of a Verify, and then in nothing but the used flag of the
\* record with the identifier of the payload; no record is created or
\* removed.
C22_VerifyFrame ==
    [][/\ VerifyTurnedDown => data' = data /\ pttl' = pttl
       /\ DOMAIN data' = DOMAIN data
       /\ data' # data \/ pttl' # pttl
              => \E p \in Procs :
                     /\ pc[p] = "mark" /\ pc'[p] = "idle"
                     /\ \A id \in DOMAIN data :
                            IF id = call[p].tokenID
                            THEN [Stored(id)' EXCEPT !.Used = Stored(id).Used] = Stored(id)
                            ELSE /\ data'[id] = data[id]
                                 /\ cfg.store = "redis" => pttl'[id] = pttl[id]]_vars

\* of two tokens in the store one has been redeemed, the other is as it was
\* issued, and a Verify has just been turned down as used
C22_Witness ==
    /\ LastChecked
    /\ last.result = Failure(ErrUsed)
    /\ last.call.storeOps = <<"Get">>
    /\ last.call.tokenID = 2
    /\ Stored(2) = [generated[2] EXCEPT !.Used = TRUE]
    /\ Stored(1) = generated[1]

\* the step is a call of CheckAndIncrement
LimiterCalled == Len(rlLog') = Len(rlLog) + 1

\* C23: the in-memory limiter, step by step: a call for a principal with no
\* entry, or made when now > windowEnd, sets the entry to (1, now + window)
\* and returns nil; otherwise a call with count >= limit returns
\* ErrRateLimitExceeded and leaves the entry as it is; otherwise it adds one
\* to count, keeps windowEnd and returns nil.  Every entry has
\* 1 <= count <= max(limit, 1).
C23_LimiterSteps ==
    /\ [](cfg.rateLimiter = "memory" =>
              \A u \in DOMAIN users :
                  users[u].count >= 1 /\ users[u].count <= Max(cfg.rateLimit, 1))
    /\ [][cfg.rateLimiter = "memory" /\ LimiterCalled =>
              \A u \in {rlLog'[Len(rlLog')].userID} :
                  IF u \notin DOMAIN users \/ now > users[u].windowEnd
                  THEN /\ rlLog'[Len(rlLog')].err = NoErr
                       /\ users'[u] = [count |-> 1, windowEnd |-> now + cfg.rateWindow]
                  ELSE IF users[u].count >= cfg.rateLimit
                  THEN /\ rlLog'[Len(rlLog')].err = ErrRateLimitExceeded
                       /\ users'[u] = users[u]
                  ELSE /\ rlLog'[Len(rlLog')].err = NoErr
                       /\ users'[u] = [count |-> users[u].count + 1,
                                       windowEnd |-> users[u].windowEnd]]_vars

\* an entry counted up to the limit part of the way through its window,
\* and a call turned down after that
C23_Witness ==
    /\ cfg.rateLimiter = "memory"
    /\ cfg.rateLimit > 1
    /\ Len(rlLog) = 3
    /\ rlLog[2].at > rlLog[1].at
    /\ rlLog[2].err = NoErr
    /\ rlLog[3].err = ErrRateLimitExceeded
    /\ users["u1"] = [count |-> cfg.rateLimit, windowEnd |-> rlLog[1].at + cfg.rateWindow]

\* the length of the window as the limiter keeps it
KeptWindow ==
    IF cfg.rateLimiter = "memory" THEN cfg.rateWindow
    ELSE WindowSeconds(cfg.rateWindow) * UnitsPerSecond

\* the calls the limiter allowed u in the window its entry stands for
AllowedInEntry(u) ==
    {i \in 1..Len(rlLog) : /\ rlLog[i].userID = u
                           /\ rlLog[i].err = NoErr
                           /\ rlLog[i].at >= users[u].windowEnd - KeptWindow}

\* C24: a Generate that passes the rate limiter and then fails at
\* Store.Save has used up one unit of the subject's quota: the step of Save
\* leaves the counters as they are, and the count of an entry is the number
\* of calls the limiter allowed in its window, whatever became of them; so
\* L such calls in a window exhaust a limit of L with no token issued.
C24_QuotaConsumed ==
    /\ [][\A p \in Procs :
              pc[p] = "save" /\ pc'[p] = "idle" => users' = users /\ rlLog' = rlLog]_vars
    /\ [](Limited /\ (\A i \in 1..Len(ioLog) : ioLog[i].op = "Save")
              => \A u \in DOMAIN users : users[u].count = Cardinality(AllowedInEntry(u)))

\* a limit of one used up by a Generate that failed at Save: the next call
\* in the window is turned down, and no token has been issued
C24_Witness ==
    /\ cfg.rateLimit = 1
    /\ Len(ioLog) = 1 /\ ioLog[1].op = "Save" /\ ioLog[1].io = "fail"
    /\ DOMAIN generated = {}
    /\ DOMAIN data = {}
    /\ Len(rlLog) = 2
    /\ rlLog[1].err = NoErr
    /\ rlLog[2].err = ErrRateLimitExceeded
    /\ last.call.op = "Generate" /\ last.result = Failure(ErrRateLimitExceeded)

\* the calls before the i-th that the limiter allowed the same principal
AllowedBefore(i) ==
    {j \in 1..(i - 1) : rlLog[j].userID = rlLog[i].userID /\ rlLog[j].err = NoErr}

\* C25: the counters of the rate limiter are kept per principal: a
\* CheckAndIncrement for one principal, allowed or turned down, leaves the
\* entry of every other principal as it is, and a call is turned down only
\* when the limiter has allowed its own principal limit calls before: using
\* up the quota of A never fails a Generate for B.
C25_PrincipalIsolation ==
    /\ [][LimiterCalled =>
              \A u \in DOMAIN users :
                  u # rlLog'[Len(rlLog')].userID
                      => u \in DOMAIN users' /\ users'[u] = users[u]]_vars
    /\ [](ioErrs = 0 =>
              \A i \in 1..Len(rlLog) :
                  rlLog[i].err = ErrRateLimitExceeded
                      => Cardinality(AllowedBefore(i)) >= cfg.rateLimit)

\* one subject turned down, then another served in the same window
C25_Witness ==
    /\ Len(rlLog) = 3
    /\ rlLog[1].userID = "u1" /\ rlLog[1].err = NoErr
    /\ rlLog[2].userID = "u1" /\ rlLog[2].err = ErrRateLimitExceeded
    /\ rlLog[3].userID = "u2" /\ rlLog[3].err = NoErr
    /\ rlLog[3].at = rlLog[1].at
    /\ last.call.op = "Generate" /\ last.call.userID = "u2" /\ last.result.err = NoErr
    /\ users["u1"].count = cfg.rateLimit

\* the Generate call was turned down before it minted an identifier
TurnedDownEarly(c) ==
    \/ InvalidArguments(c)
    \/ c.logAt > 0 /\ rlLog[c.logAt].err # NoErr

\* C26: a Generate call reads the Manager's clock exactly once, and the
\* expiresAt of the token it persists and returns is that reading plus the
\* clamped ttl, however long Store.Save takes; a Generate that fails the
\* argument checks or is turned down by the rate limiter does not read the
\* clock.
C26_ClockReadOnce ==
    /\ \A p \in Procs : call[p].op = "Generate" => call[p].reads <= 1
    /\ last.call.op = "Generate" =>
           IF TurnedDownEarly(last.call)
           THEN last.call.reads = 0 /\ last.call.nowRead = -1
           ELSE /\ last.call.reads = 1
                /\ last.result.err = NoErr
                       => /\ last.result.token.ExpiresAt
                                 = last.call.nowRead + Bounded(last.call.ttlArg)
                          /\ Stored(last.call.tokenID).ExpiresAt
                                 = last.result.token.ExpiresAt

\* a token saved after the clock had moved on from the reading of its
\* Generate, under a rate limit that has turned a call down
C26_Witness ==
    /\ last.call.op = "Generate" /\ last.result.err = NoErr
    /\ last.call.reads = 1
    /\ last.call.savedAt > last.call.nowRead
    /\ last.result.token.ExpiresAt = last.call.nowRead + last.call.ttlArg
    /\ \E i \in 1..Len(rlLog) : rlLog[i].err = ErrRateLimitExceeded

====
